---- MODULE Spec2Model ----
(***************************************************************************)
(* A model of main_dou.py: the job-search bot's content filter, primary    *)
(* query builder, the two source fetchers, the fallback orchestrator       *)
(* search_jobs and the do_search handler that calls it.                    *)
(*                                                                         *)
(* Text is modelled at character level: a Python str is a sequence of      *)
(* one-character strings.  A non-ASCII character is written as the token   *)
(* "uXXXX" of its code point (the parser accepts ASCII only).  None is the *)
(* string "None".                                                          *)
(***************************************************************************)
EXTENDS Integers, Sequences, FiniteSets, TLC

VARIABLES
    ALLOW_RU,        \* configuration: region filtering is off when TRUE
    state,           \* FSM state of the session (JobWizard.* or "None")
    data_prefs,      \* session data["prefs"]
    data_debug_urls, \* session data["debug_urls"]
    msgs,            \* the chat: the keyboard each of the bot's messages shows
    pc,              \* position of the do_search task
    c_message,       \* do_search: the message whose button was pressed
    p,               \* do_search: prefs read from the session
    debug_urls,      \* do_search: the list handed to search_jobs
    tries_i,         \* fetch_dou_ua: number of ladder variants requested
    relax_if_empty,  \* search_jobs: argument of the pending fetch_dou_eu call
    in_try,          \* search_jobs: the pending call is inside the try block
    cards,           \* fetch_dou_eu: candidates of the page fetched last
    accepted,        \* candidates behind the listings in results, in order
    results,         \* do_search: results
    exc,             \* exception caught by do_search ("None" when none)
    rendered,        \* message do_search rendered (no body before)
    reqs,            \* history: requests issued by this search, in order
    nfail,           \* history: primary requests of this search that failed
    log0,            \* history: debug_urls as do_search read it
    stale,           \* history: debug_urls of the task when a reset ran
    f_text,          \* filter harness: input text
    f_out,           \* filter harness: <<result>> (<<>> before the call)
    fe_src,          \* fetcher harness: the feed or page served
    fe_out           \* fetcher harness: <<accepted candidates>> (<<>> before)

vars == << ALLOW_RU, state, data_prefs, data_debug_urls, msgs, pc,
           c_message, p, debug_urls, tries_i, relax_if_empty, in_try, cards,
           accepted, results, exc, rendered, reqs, nfail, log0, stale, f_text,
           f_out, fe_src, fe_out >>

None == "None"

Range(s) == { s[i] : i \in DOMAIN s }

(***************************************************************************)
(* Text helpers                                                            *)
(***************************************************************************)

\* str.lower(), per character: upper-case Latin and Cyrillic letters
LowerTable ==
    ("A" :> "a") @@ ("B" :> "b") @@ ("C" :> "c") @@ ("D" :> "d") @@
    ("E" :> "e") @@ ("F" :> "f") @@ ("G" :> "g") @@ ("H" :> "h") @@
    ("I" :> "i") @@ ("J" :> "j") @@ ("K" :> "k") @@ ("L" :> "l") @@
    ("M" :> "m") @@ ("N" :> "n") @@ ("O" :> "o") @@ ("P" :> "p") @@
    ("Q" :> "q") @@ ("R" :> "r") @@ ("S" :> "s") @@ ("T" :> "t") @@
    ("U" :> "u") @@ ("V" :> "v") @@ ("W" :> "w") @@ ("X" :> "x") @@
    ("Y" :> "y") @@ ("Z" :> "z") @@ ("u0410" :> "u0430") @@
    ("u0411" :> "u0431") @@ ("u0412" :> "u0432") @@ ("u0413" :> "u0433") @@
    ("u0414" :> "u0434") @@ ("u0415" :> "u0435") @@ ("u0416" :> "u0436") @@
    ("u0417" :> "u0437") @@ ("u0418" :> "u0438") @@ ("u0419" :> "u0439") @@
    ("u041a" :> "u043a") @@ ("u041b" :> "u043b") @@ ("u041c" :> "u043c") @@
    ("u041d" :> "u043d") @@ ("u041e" :> "u043e") @@ ("u041f" :> "u043f") @@
    ("u0420" :> "u0440") @@ ("u0421" :> "u0441") @@ ("u0422" :> "u0442") @@
    ("u0423" :> "u0443") @@ ("u0424" :> "u0444") @@ ("u0425" :> "u0445") @@
    ("u0426" :> "u0446") @@ ("u0427" :> "u0447") @@ ("u0428" :> "u0448") @@
    ("u0429" :> "u0449") @@ ("u042a" :> "u044a") @@ ("u042b" :> "u044b") @@
    ("u042c" :> "u044c") @@ ("u042d" :> "u044d") @@ ("u042e" :> "u044e") @@
    ("u042f" :> "u044f") @@ ("u0401" :> "u0451") @@ ("u0406" :> "u0456") @@
    ("u0407" :> "u0457") @@ ("u0404" :> "u0454") @@ ("u0490" :> "u0491")

lower(s) ==
    [i \in DOMAIN s |-> IF s[i] \in DOMAIN LowerTable THEN LowerTable[s[i]]
                        ELSE s[i]]

\* Python's "needle in t" on str
Contains(t, needle) ==
    \/ needle = <<>>
    \/ \E i \in 1..(Len(t) - Len(needle) + 1) :
          /\ t[i] = needle[1]
          /\ SubSeq(t, i, i + Len(needle) - 1) = needle

(***************************************************************************)
(* Optional RU filter                                                      *)
(***************************************************************************)

FORBIDDEN_TERMS ==
    <<
      <<" ","r","u","s","s","i","a"," ">>,
      <<" ","u0440","u043e","u0441","u0441","u0438","u044f"," ">>,
      <<" ","u0440","u043e","u0441","u0456","u044f"," ">>,
      <<" ","u0440","u0444"," ">>,
      <<" ","m","o","s","c","o","w"," ">>,
      <<" ","u043c","u043e","u0441","u043a","u0432","u0430"," ">>,
      <<" ","s","a","i","n","t"," ","p","e","t","e","r","s","b","u","r","g",
        " ">>,
      <<" ","s","t","."," ","p","e","t","e","r","s","b","u","r","g"," ">>,
      <<" ","u0441","u0430","u043d","u043a","u0442","-","u043f","u0435",
        "u0442","u0435","u0440","u0431","u0443","u0440","u0433"," ">>,
      <<" ","u0441","u0430","u043d","u043a","u0442"," ","u043f","u0435",
        "u0442","u0435","u0440","u0431","u0443","u0440","u0433"," ">>
    >>

contains_forbidden(text) ==
    IF ALLOW_RU THEN FALSE
    ELSE LET t == <<" ">> \o lower(text) \o <<" ">>
         IN  \E k \in DOMAIN FORBIDDEN_TERMS : Contains(t, FORBIDDEN_TERMS[k])

(***************************************************************************)
(* Domain                                                                  *)
(***************************************************************************)

\* option codes of the three keyboards
COUNTRIES == <<"UA", "INTL", "ANY">>

SPHERES ==
    <<"QA", "BACKEND", "FRONTEND", "DATA", "DEVOPS", "PMBA", "DESIGN", "ANY">>

FORMATS == <<"REMOTE", "OFFICE", "PARTTIME", "CONTRACT", "ANY">>

\* Prefs(): every field defaults to None
Prefs == [country |-> None, sphere |-> None, format_ |-> None]

\* the states of JobWizard
JobWizard == {"country", "sphere", "format_", "review"}

\* the callback data of the buttons of kb_options (add_reset is always True)
kb_options(options, prefix, add_back) ==
    { <<prefix, options[i]>> : i \in DOMAIN options }
    \cup (IF add_back THEN { <<"nav", "back">> } ELSE {})
    \cup { <<"nav", "reset">> }

\* the callback data of the buttons of kb_review
kb_review ==
    { <<"do", "search">>, <<"nav", "edit">>, <<"do", "save">>,
      <<"nav", "reset">> }

\* the keyboard the handlers attach to the message of each step
Keyboard ==
    [step \in JobWizard |->
       CASE step = "country" -> kb_options(COUNTRIES, "country", FALSE)
         [] step = "sphere"  -> kb_options(SPHERES, "sphere", TRUE)
         [] step = "format_" -> kb_options(FORMATS, "format", TRUE)
         [] step = "review"  -> kb_review]

\* html.escape(s, quote=True), per character
html_escape_char(c) ==
    CASE c = "&"  -> <<"&","a","m","p",";">>
      [] c = "<"  -> <<"&","l","t",";">>
      [] c = ">"  -> <<"&","g","t",";">>
      [] c = "\"" -> <<"&","q","u","o","t",";">>
      [] c = "'"  -> <<"&","#","x","2","7",";">>
      [] OTHER    -> <<c>>

RECURSIVE normalize_html(_)
normalize_html(s) ==
    IF s = <<>> THEN <<>>
    ELSE html_escape_char(Head(s)) \o normalize_html(Tail(s))

(***************************************************************************)
(* DOU maps                                                                *)
(***************************************************************************)

\* the map with a category given to BACKEND as well
UA_CATEGORY_MAP_backend(k) ==
    CASE k = "QA"       -> "QA"
      [] k = "FRONTEND" -> "Front End"
      [] k = "DEVOPS"   -> "DevOps"
      [] k = "DESIGN"   -> "Design"
      [] k = "DATA"     -> "Data Science"
      [] k = "PMBA"     -> "Project Manager"
      [] k = "BACKEND"  -> "DevOps"
      [] OTHER          -> None

\* UA_CATEGORY_MAP.get(k): None for BACKEND, ANY and every unknown key
UA_CATEGORY_MAP(k) ==
    CASE k = "QA"       -> "QA"
      [] k = "FRONTEND" -> "Front End"
      [] k = "DEVOPS"   -> "DevOps"
      [] k = "DESIGN"   -> "Design"
      [] k = "DATA"     -> "Data Science"
      [] k = "PMBA"     -> "Project Manager"
      [] OTHER          -> None

\* EU_CATEGORY_MAP.get(k), the label as text; None is the empty text
EU_CATEGORY_MAP(k) ==
    CASE k = "QA"       -> <<"Q","A">>
      [] k = "FRONTEND" -> <<"F","r","o","n","t","-","e","n","d">>
      [] k = "DEVOPS"   -> <<"D","e","v","O","p","s">>
      [] k = "DESIGN"   -> <<"D","e","s","i","g","n">>
      [] k = "DATA"     -> <<"D","a","t","a"," ","S","c","i","e","n","c","e">>
      [] k = "PMBA"     ->
           <<"P","r","o","j","e","c","t"," ","M","a","n","a","g","e","r">>
      [] OTHER          -> <<>>

(***************************************************************************)
(* Build URLs                                                              *)
(*                                                                         *)
(* A search term is named by an atom; SearchTermText gives its characters. *)
(* A feed URL is the ordered list of its query parameters <<key, value>>,  *)
(* as urlencode receives them; a value is the list of its space-separated  *)
(* pieces (the search clause: its terms; a bare flag: the empty string).   *)
(***************************************************************************)

BACKEND_EXPR == "(Back-end OR Backend)"

PT_SYNONYMS == "(part-time OR \"part time\" OR <uk: part-time> OR <ru: part-time>)"

CONTRACT_SYNONYMS == "(contract OR contractor OR <ru: contract>)"

PT_ALT == "(Part time OR Part-time OR <uk: half-time>)"

SearchTermText(term) ==
    CASE term = BACKEND_EXPR ->
           <<"(","B","a","c","k","-","e","n","d"," ","O","R"," ","B","a","c",
             "k","e","n","d",")">>
      [] term = PT_SYNONYMS ->
           <<"(","p","a","r","t","-","t","i","m","e"," ","O","R"," ","\"","p",
             "a","r","t"," ","t","i","m","e","\""," ","O","R"," ","u043d",
             "u0435","u043f","u043e","u0432","u043d","u0430"," ","u0437",
             "u0430","u0439","u043d","u044f","u0442","u0456","u0441","u0442",
             "u044c"," ","O","R"," ","u0447","u0430","u0441","u0442","u0438",
             "u0447","u043d","u0430","u044f"," ","u0437","u0430","u043d",
             "u044f","u0442","u043e","u0441","u0442","u044c",")">>
      [] term = CONTRACT_SYNONYMS ->
           <<"(","c","o","n","t","r","a","c","t"," ","O","R"," ","c","o","n",
             "t","r","a","c","t","o","r"," ","O","R"," ","u043a","u043e",
             "u043d","u0442","u0440","u0430","u043a","u0442",")">>
      [] term = PT_ALT ->
           <<"(","P","a","r","t"," ","t","i","m","e"," ","O","R"," ","P","a",
             "r","t","-","t","i","m","e"," ","O","R"," ","u041f","u0456",
             "u0432","u0441","u0442","u0430","u0432","u043a","u0438",")">>

\* " ".join(terms), as text
RECURSIVE join_terms(_)
join_terms(terms) ==
    IF terms = <<>> THEN <<>>
    ELSE IF Len(terms) = 1 THEN SearchTermText(terms[1])
    ELSE SearchTermText(terms[1]) \o <<" ">> \o join_terms(Tail(terms))

\* the keywords without those of the backend expression
DESCR_KEYWORDS_no_backend ==
    << <<"p","a","r","t">>, <<"t","i","m","e">>,
       <<"c","o","n","t","r","a","c","t">> >>

\* the keywords that switch on the search in descriptions
DESCR_KEYWORDS ==
    << <<"p","a","r","t">>, <<"t","i","m","e">>,
       <<"c","o","n","t","r","a","c","t">>,
       <<"b","a","c","k","-","e","n","d">>, <<"b","a","c","k","e","n","d">> >>

\* search_terms = None is the empty list (both are falsy)
build_dou_ua_feed_url(q, search_terms, drop_category) ==
    LET cat    == IF drop_category THEN None
                  ELSE UA_CATEGORY_MAP(IF q.sphere = None THEN "ANY"
                                       ELSE q.sphere)
        terms  == (IF q.sphere = "BACKEND" THEN <<BACKEND_EXPR>> ELSE <<>>)
                  \o search_terms
        joined == lower(join_terms(terms))
        descr  == \E k \in DOMAIN DESCR_KEYWORDS :
                      Contains(joined, DESCR_KEYWORDS[k])
    IN  (IF cat # None THEN << <<"category", <<cat>> >> >> ELSE <<>>)
        \o (IF q.format_ = "REMOTE" THEN << <<"remote", <<"">> >> >> ELSE <<>>)
        \o (IF q.country = "INTL" THEN << <<"relocation", <<"">> >> >>
            ELSE <<>>)
        \o (IF terms # <<>> THEN << <<"search", terms>> >> ELSE <<>>)
        \o (IF terms # <<>> /\ descr THEN << <<"descr", <<"1">> >> >>
            ELSE <<>>)


(***************************************************************************)
(* urlencode: the text of a feed URL                                       *)
(***************************************************************************)

\* quote_plus of the characters it does not leave alone (a character
\* outside ASCII becomes the escaped bytes of its UTF-8 encoding)
QuoteTable ==
    (" " :> <<"+">>) @@ ("\"" :> <<"%","2","2">>) @@
    ("(" :> <<"%","2","8">>) @@ (")" :> <<"%","2","9">>) @@
    ("u041f" :> <<"%","D","0","%","9","F">>) @@
    ("u0430" :> <<"%","D","0","%","B","0">>) @@
    ("u0432" :> <<"%","D","0","%","B","2">>) @@
    ("u0435" :> <<"%","D","0","%","B","5">>) @@
    ("u0437" :> <<"%","D","0","%","B","7">>) @@
    ("u0438" :> <<"%","D","0","%","B","8">>) @@
    ("u0439" :> <<"%","D","0","%","B","9">>) @@
    ("u043a" :> <<"%","D","0","%","B","A">>) @@
    ("u043d" :> <<"%","D","0","%","B","D">>) @@
    ("u043e" :> <<"%","D","0","%","B","E">>) @@
    ("u043f" :> <<"%","D","0","%","B","F">>) @@
    ("u0440" :> <<"%","D","1","%","8","0">>) @@
    ("u0441" :> <<"%","D","1","%","8","1">>) @@
    ("u0442" :> <<"%","D","1","%","8","2">>) @@
    ("u0447" :> <<"%","D","1","%","8","7">>) @@
    ("u044c" :> <<"%","D","1","%","8","C">>) @@
    ("u044f" :> <<"%","D","1","%","8","F">>) @@
    ("u0456" :> <<"%","D","1","%","9","6">>)

quote_plus(s) ==
    LET RECURSIVE q(_)
        q(t) == IF t = <<>> THEN <<>>
                ELSE (IF Head(t) \in DOMAIN QuoteTable THEN QuoteTable[Head(t)]
                      ELSE <<Head(t)>>) \o q(Tail(t))
    IN  q(s)

\* the characters of a parameter name
KeyText(key) ==
    CASE key = "category"   -> <<"c","a","t","e","g","o","r","y">>
      [] key = "remote"     -> <<"r","e","m","o","t","e">>
      [] key = "relocation" -> <<"r","e","l","o","c","a","t","i","o","n">>
      [] key = "search"     -> <<"s","e","a","r","c","h">>
      [] key = "descr"      -> <<"d","e","s","c","r">>

\* the characters of a label of UA_CATEGORY_MAP
CategoryText(cat) ==
    CASE cat = "QA"              -> <<"Q","A">>
      [] cat = "Front End"       -> <<"F","r","o","n","t"," ","E","n","d">>
      [] cat = "DevOps"          -> <<"D","e","v","O","p","s">>
      [] cat = "Design"          -> <<"D","e","s","i","g","n">>
      [] cat = "Data Science"    ->
           <<"D","a","t","a"," ","S","c","i","e","n","c","e">>
      [] cat = "Project Manager" ->
           <<"P","r","o","j","e","c","t"," ","M","a","n","a","g","e","r">>

\* the value of a parameter as urlencode receives it
ValueText(key, value) ==
    CASE key = "category" -> CategoryText(value[1])
      [] key = "search"   -> join_terms(value)
      [] key = "descr"    -> <<"1">>
      [] OTHER            -> <<>>

\* urlencode(params, doseq=True): k=v pairs joined by "&"
RECURSIVE urlencode(_)
urlencode(params) ==
    IF params = <<>> THEN <<>>
    ELSE quote_plus(KeyText(params[1][1])) \o <<"=">>
         \o quote_plus(ValueText(params[1][1], params[1][2]))
         \o (IF Len(params) > 1 THEN <<"&">> ELSE <<>>)
         \o urlencode(Tail(params))

BASE_URL ==
    <<"h","t","t","p","s",":","/","/","j","o","b","s",".","d","o","u",".",
      "u","a","/","v","a","c","a","n","c","i","e","s","/","f","e","e","d",
      "s","/">>

\* base + "?" + urlencode(params): the URL as requested and as logged
url_text(params) == BASE_URL \o <<"?">> \o urlencode(params)
(***************************************************************************)
(* Scrapers                                                                *)
(***************************************************************************)

\* default of the limit parameter of both fetchers
LIMIT == 12

\* fetch_dou_ua reads feed.entries[:UA_SCAN]
UA_SCAN == 120

\* the single page of the secondary source
EU_URL == "https://dou.eu/en/jobs"

\* the ladder with the contract variant requested before the part-time one
TRY_VARIANTS_contract_first ==
    << [search_terms |-> <<>>,                    drop_category |-> FALSE],
       [search_terms |-> <<CONTRACT_SYNONYMS>>,   drop_category |-> FALSE],
       [search_terms |-> <<PT_SYNONYMS>>,         drop_category |-> FALSE],
       [search_terms |-> <<PT_ALT>>,              drop_category |-> FALSE],
       [search_terms |-> <<>>,                    drop_category |-> TRUE] >>

\* the ladder with variant (iv) a copy of variant (ii)
TRY_VARIANTS_copied ==
    << [search_terms |-> <<>>,                    drop_category |-> FALSE],
       [search_terms |-> <<PT_SYNONYMS>>,         drop_category |-> FALSE],
       [search_terms |-> <<CONTRACT_SYNONYMS>>,   drop_category |-> FALSE],
       [search_terms |-> <<PT_SYNONYMS>>,         drop_category |-> FALSE],
       [search_terms |-> <<>>,                    drop_category |-> TRUE] >>

\* the ladder of fetch_dou_ua: search_terms and drop_category of each variant
TRY_VARIANTS ==
    << [search_terms |-> <<>>,                    drop_category |-> FALSE],
       [search_terms |-> <<PT_SYNONYMS>>,         drop_category |-> FALSE],
       [search_terms |-> <<CONTRACT_SYNONYMS>>,   drop_category |-> FALSE],
       [search_terms |-> <<PT_ALT>>,              drop_category |-> FALSE],
       [search_terms |-> <<>>,                    drop_category |-> TRUE] >>

\* tries[i - 1]
fetch_dou_ua_try(q, i) ==
    build_dou_ua_feed_url(q, TRY_VARIANTS[i].search_terms,
                          TRY_VARIANTS[i].drop_category)

\* tries
fetch_dou_ua_tries(q) ==
    [i \in DOMAIN TRY_VARIANTS |-> fetch_dou_ua_try(q, i)]

\* f'<a href="{link}">{normalize_html(title)}</a>'
listing(href, title) ==
    [kind |-> "listing", href |-> href, text |-> normalize_html(title),
     err |-> None]

\* the loop body's two filters of fetch_dou_ua: an entry is appended or skipped
ua_entry_ok(e) ==
    /\ e.title # <<>>
    /\ e.link # <<>>
    /\ ~(contains_forbidden(e.title) \/ contains_forbidden(e.link))

\* the break taken one item late
scan_full_late(out, limit) == Len(out) > limit

\* the break of both scan loops
scan_full(out, limit) == Len(out) >= limit

\* the state of a scan loop: the items appended, and whether it has broken
SCAN_START == [out |-> <<>>, stop |-> FALSE]

\* out.append(...) and the test of the break
scan_append(acc, item, limit) ==
    LET out2 == Append(acc.out, item)
    IN  [out |-> out2, stop |-> scan_full(out2, limit)]

\* the loop of fetch_dou_ua over entries[lo..hi], in feed order (the range
\* is walked by halves so that the evaluation stays shallow)
RECURSIVE ua_scan(_, _, _, _, _)
ua_scan(entries, lo, hi, acc, limit) ==
    IF lo > hi \/ acc.stop THEN acc
    ELSE IF lo = hi
    THEN IF ua_entry_ok(entries[lo]) THEN scan_append(acc, entries[lo], limit)
         ELSE acc
    ELSE LET mid == (lo + hi) \div 2
         IN  ua_scan(entries, mid + 1, hi,
                     ua_scan(entries, lo, mid, acc, limit), limit)

\* the entries behind the list fetch_dou_ua builds from one feed
fetch_dou_ua_out(entries, limit) ==
    LET read == SubSeq(entries, 1, IF Len(entries) < UA_SCAN THEN Len(entries)
                                   ELSE UA_SCAN)
    IN  ua_scan(read, 1, Len(read), SCAN_START, limit).out

\* (p.sphere and EU_CATEGORY_MAP.get(p.sphere)) or None; None is the empty text
want_cat(q) ==
    IF q.sphere = None THEN <<>> ELSE EU_CATEGORY_MAP(q.sphere)

want_remote(q) == q.format_ = "REMOTE"

want_office(q) == q.format_ = "OFFICE"

want_pt(q) == q.format_ = "PARTTIME"

want_contract(q) == q.format_ = "CONTRACT"

REMOTE_MARK == <<"R","e","m","o","t","e">>

PT_MARKS ==
    << <<"P","a","r","t","-","t","i","m","e">>,
       <<"p","a","r","t","-","t","i","m","e">>,
       <<"P","a","r","t"," ","t","i","m","e">> >>

CONTRACT_MARK == <<"C","o","n","t","r","a","c","t">>

\* relaxation skips the remote and office rules as well
match_card_text_relax_all(q, text, allow_relax) ==
    IF want_cat(q) # <<>> /\ ~Contains(lower(text), lower(want_cat(q)))
    THEN FALSE
    ELSE IF allow_relax THEN TRUE
    ELSE IF want_remote(q) /\ ~Contains(text, REMOTE_MARK) THEN FALSE
    ELSE IF want_office(q) /\ Contains(text, REMOTE_MARK) THEN FALSE
    ELSE IF /\ want_pt(q)
            /\ ~(\E k \in DOMAIN PT_MARKS : Contains(text, PT_MARKS[k]))
    THEN FALSE
    ELSE IF want_contract(q) /\ ~Contains(text, CONTRACT_MARK)
    THEN FALSE
    ELSE TRUE

\* match_card_text of fetch_dou_eu, the want_* closed over taken from q
match_card_text(q, text, allow_relax) ==
    IF want_cat(q) # <<>> /\ ~Contains(lower(text), lower(want_cat(q)))
    THEN FALSE
    ELSE IF want_remote(q) /\ ~Contains(text, REMOTE_MARK) THEN FALSE
    ELSE IF want_office(q) /\ Contains(text, REMOTE_MARK) THEN FALSE
    ELSE IF /\ want_pt(q)
            /\ ~(\E k \in DOMAIN PT_MARKS : Contains(text, PT_MARKS[k]))
            /\ ~allow_relax
    THEN FALSE
    ELSE IF want_contract(q) /\ ~Contains(text, CONTRACT_MARK) /\ ~allow_relax
    THEN FALSE
    ELSE TRUE

\* the filters with the content filter applied to the title alone
eu_card_ok_title_only(a, q, allow_relax) ==
    /\ a.parent
    /\ ~contains_forbidden(a.title)
    /\ match_card_text(q, a.text, allow_relax)
    /\ a.href # <<>>

\* the loop body's filters of fetch_dou_eu, in the order the code applies them
eu_card_ok(a, q, allow_relax) ==
    /\ a.parent
    /\ ~(contains_forbidden(a.title) \/ contains_forbidden(a.text))
    /\ match_card_text(q, a.text, allow_relax)
    /\ a.href # <<>>

\* one loop of fetch_dou_eu over cs[lo..hi], in document order
RECURSIVE eu_scan(_, _, _, _, _, _, _)
eu_scan(cs, lo, hi, acc, q, allow_relax, limit) ==
    IF lo > hi \/ acc.stop THEN acc
    ELSE IF lo = hi
    THEN IF eu_card_ok(cs[lo], q, allow_relax)
         THEN scan_append(acc, cs[lo], limit)
         ELSE acc
    ELSE LET mid == (lo + hi) \div 2
         IN  eu_scan(cs, mid + 1, hi,
                     eu_scan(cs, lo, mid, acc, q, allow_relax, limit),
                     q, allow_relax, limit)

\* a second pass whenever the request wanted part-time or contract
eu_second_pass_whenever_wanted(first, q, relax) ==
    relax /\ (want_pt(q) \/ want_contract(q))

\* the condition of the second pass
eu_second_pass(first, q, relax) ==
    first = <<>> /\ relax /\ (want_pt(q) \/ want_contract(q))

\* fetch_dou_eu after the page is fetched: the anchors behind its result
fetch_dou_eu_out(q, cs, limit, relax) ==
    LET first == eu_scan(cs, 1, Len(cs), SCAN_START, q, FALSE, limit).out
    IN  IF eu_second_pass(first, q, relax)
        THEN eu_scan(cs, 1, Len(cs), SCAN_START, q, TRUE, limit).out
        ELSE first

ua_items(out) == [i \in DOMAIN out |-> listing(out[i].link, out[i].title)]

eu_items(out) == [i \in DOMAIN out |-> listing(out[i].href, out[i].title)]

(***************************************************************************)
(* Inputs: what the two sources serve, and the preferences of a session    *)
(***************************************************************************)

\* longest window of UA_MASTER served as a feed
MaxFeed == 3

\* longest window of EU_MASTER served as a page
MaxPage == 3

\* entries an earlier search left in the session's debug_urls
MaxOldLog == 1

T_QA == <<"Q","A"," ","L","e","a","d">>

T_RD == <<"R","&","D"," ","D","e","v">>

T_MOSCOW == <<"D","e","v"," ","M","o","s","c","o","w">>

ua_link(n) == <<"/","v","/", n>>

\* feed entries: untitled, forbidden by its title, accepted, unlinked,
\* accepted with a title to escape
UA_MASTER ==
    << [title |-> <<>>,     link |-> ua_link("1")],
       [title |-> T_MOSCOW, link |-> ua_link("2")],
       [title |-> T_QA,     link |-> ua_link("3")],
       [title |-> T_QA,     link |-> <<>>],
       [title |-> T_RD,     link |-> ua_link("5")] >>

Prefix(master, n) ==
    SubSeq(master, 1, IF n < Len(master) THEN n ELSE Len(master))

UA_FEEDS == { Prefix(UA_MASTER, n) : n \in 0..MaxFeed }

eu_href(n) == <<"/","j","/", n>>

\* anchors of the page: title, href, enclosing card, the card's text
EU_MASTER ==
    << [title |-> <<"Q","A">>, href |-> eu_href("1"), parent |-> TRUE,
        text |-> <<"Q","A"," ","M","o","s","c","o","w"," ">> \o REMOTE_MARK],
       [title |-> T_QA, href |-> eu_href("2"), parent |-> TRUE,
        text |-> T_QA \o <<" ">> \o REMOTE_MARK],
       [title |-> T_QA, href |-> eu_href("3"), parent |-> TRUE,
        text |-> T_QA \o <<" ">> \o PT_MARKS[1] \o <<" ">> \o CONTRACT_MARK],
       [title |-> T_QA, href |-> <<>>, parent |-> TRUE,
        text |-> T_QA \o <<" ">> \o REMOTE_MARK],
       [title |-> T_RD, href |-> eu_href("5"), parent |-> TRUE,
        text |-> T_RD \o <<" ","B","a","c","k","-","e","n","d">>] >>

\* an anchor around an image: it has no text of its own, its card has
EU_ICON ==
    [title |-> <<>>, href |-> eu_href("6"), parent |-> TRUE,
     text |-> T_QA \o <<" ">> \o REMOTE_MARK]

EU_ICON_PAGE == <<EU_ICON, EU_MASTER[2]>>

EU_PAGES == { Prefix(EU_MASTER, n) : n \in 0..MaxPage } \cup {EU_ICON_PAGE}

\* what a failed request raises
FetchErrors == {"ClientConnectionError", "TimeoutError"}

\* a country code no keyboard offers
OTHER_COUNTRY == "EU"

\* a sphere code no keyboard offers
OTHER_SPHERE == "GAMEDEV"

AllPrefs ==
    [country : Range(COUNTRIES) \cup {None, OTHER_COUNTRY},
     sphere  : Range(SPHERES) \cup {None, OTHER_SPHERE},
     format_ : Range(FORMATS) \cup {None}]

\* a query left in the log by an earlier search
OLD_URL ==
    build_dou_ua_feed_url([country |-> "UA", sphere |-> "DESIGN",
                           format_ |-> "OFFICE"], <<>>, FALSE)

OLD_LOG == [i \in 1..MaxOldLog |-> OLD_URL]

(***************************************************************************)
(* Search orchestrator                                                     *)
(***************************************************************************)

\* every country sent to the primary source
uses_primary_every(country) == TRUE

\* search_jobs: the countries served by the primary source
uses_primary(country) == country \in {"UA", "INTL", "ANY", None}

\* relaxation enabled whatever the format
relax_after_ladder_always(q) == TRUE

\* relaxation disabled whatever the format
relax_after_ladder_never(q) == FALSE

\* search_jobs: relax_if_empty of the call that follows an empty ladder
relax_after_ladder(q) == q.format_ \in {"PARTTIME", "CONTRACT"}

\* search_jobs: relax_if_empty of the call made by the except handler
relax_in_handler == TRUE

\* the call made by the except handler is itself retried on failure
handler_in_try_again == TRUE

\* search_jobs: the call made by the except handler is outside the try block
handler_in_try == FALSE

\* search_jobs: relax_if_empty of the call made for any other country
relax_direct == TRUE

\* fetch_dou_ua: debug_urls.append(url)
log_attempt(urls, url) == Append(urls, url)

\* a failed variant ends the ladder by raising
continue_after_error_never(e) == FALSE

\* fetch_dou_ua: "except Exception ... continue"
continue_after_error(e) == TRUE

\* a handler for timeouts alone
do_search_catches_timeout(e) == e = "TimeoutError"

\* do_search: "except Exception as e" catches whatever a fetch raises
do_search_catches(e) == TRUE

\* do_search: results = [f"... {e}"]
error_item(e) ==
    [kind |-> "error", href |-> <<>>, text |-> <<>>, err |-> e]

\* do_search: the body when results is empty
NOTHING_FOUND ==
    [kind |-> "nothing", href |-> <<>>, text |-> <<>>, err |-> None]

\* the message before do_search edits it
NOT_RENDERED == [header |-> Prefs, body |-> <<>>]

\* the fetcher harness before a source is chosen
NO_SOURCE == [kind |-> "none", body |-> <<>>, q |-> Prefs, relax |-> FALSE]

request(src, url, relax) == [src |-> src, url |-> url, relax |-> relax]

\* do_search up to the first request of search_jobs
do_search_begin ==
    /\ pc \in {"idle", "done"}
    /\ Len(data_debug_urls) <= MaxOldLog
    /\ \E m \in DOMAIN msgs :
          /\ <<"do", "search">> \in Keyboard[msgs[m]]
          /\ c_message' = m
    /\ stale' = <<>>
    /\ p' = data_prefs
    /\ debug_urls' = data_debug_urls
    /\ log0' = data_debug_urls
    /\ reqs' = <<>>
    /\ nfail' = 0
    /\ tries_i' = 0
    /\ cards' = <<>>
    /\ accepted' = <<>>
    /\ results' = <<>>
    /\ exc' = None
    /\ rendered' = NOT_RENDERED
    /\ IF uses_primary(data_prefs.country)
       THEN pc' = "fetch_dou_ua" /\ in_try' = TRUE /\ relax_if_empty' = FALSE
       ELSE /\ pc' = "fetch_dou_eu"
            /\ in_try' = FALSE
            /\ relax_if_empty' = relax_direct
    /\ UNCHANGED << msgs, ALLOW_RU, state, data_prefs, data_debug_urls,
                    f_text, f_out, fe_src, fe_out >>

\* fetch_dou_ua returns [] and search_jobs turns to the secondary source
ladder_goes_on(i) ==
    IF i = Len(TRY_VARIANTS)
    THEN pc' = "fetch_dou_eu" /\ relax_if_empty' = relax_after_ladder(p)
    ELSE pc' = "fetch_dou_ua" /\ relax_if_empty' = relax_if_empty

\* one turn of the ladder whose request fails
fetch_dou_ua_error ==
    /\ pc = "fetch_dou_ua"
    /\ \E e \in FetchErrors :
         LET url == fetch_dou_ua_try(p, tries_i + 1)
         IN  /\ debug_urls' = log_attempt(debug_urls, url)
             /\ reqs' = Append(reqs, request("ua", url, FALSE))
                          /\ tries_i' = tries_i + 1
             /\ nfail' = nfail + 1
             /\ IF continue_after_error(e)
                THEN ladder_goes_on(tries_i + 1) /\ UNCHANGED in_try
                ELSE /\ pc' = "fetch_dou_eu"
                     /\ in_try' = handler_in_try
                     /\ relax_if_empty' = relax_in_handler
    /\ UNCHANGED << msgs, c_message, stale,
                    ALLOW_RU, state, data_prefs, data_debug_urls, p, cards,
                    accepted, results, exc, rendered, log0, f_text, f_out,
                    fe_src, fe_out >>

\* one turn of the ladder whose request is served one of these feeds
fetch_dou_ua_served(feeds) ==
    /\ pc = "fetch_dou_ua"
    /\ \E feed \in feeds :
         LET url == fetch_dou_ua_try(p, tries_i + 1)
             out == fetch_dou_ua_out(feed, LIMIT)
         IN  /\ debug_urls' = log_attempt(debug_urls, url)
             /\ reqs' = Append(reqs, request("ua", url, FALSE))
             /\ tries_i' = tries_i + 1
             /\ IF out # <<>>
                THEN /\ pc' = "persist"
                     /\ accepted' = out
                     /\ results' = ua_items(out)
                     /\ UNCHANGED relax_if_empty
                ELSE /\ ladder_goes_on(tries_i + 1)
                     /\ UNCHANGED << accepted, results >>
    /\ UNCHANGED << msgs, c_message, stale,
                    ALLOW_RU, state, data_prefs, data_debug_urls, p, in_try,
                    cards, exc, rendered, nfail, log0, f_text, f_out, fe_src,
                    fe_out >>

\* one turn of the ladder whose request is served a feed
fetch_dou_ua_feed == fetch_dou_ua_served(UA_FEEDS)

\* the request of fetch_dou_eu fails: the handler of search_jobs, or do_search
fetch_dou_eu_error ==
    /\ pc = "fetch_dou_eu"
    /\ \E e \in FetchErrors :
         /\ reqs' = Append(reqs, request("eu", EU_URL, relax_if_empty))
         /\ IF in_try
            THEN /\ in_try' = handler_in_try
                 /\ relax_if_empty' = relax_in_handler
                 /\ UNCHANGED << pc, results, exc >>
            ELSE /\ pc' = IF do_search_catches(e) THEN "persist" ELSE "raised"
                 /\ results' = IF do_search_catches(e) THEN <<error_item(e)>>
                               ELSE results
                 /\ exc' = e
                 /\ UNCHANGED << in_try, relax_if_empty >>
    /\ UNCHANGED << msgs, c_message, stale,
                    ALLOW_RU, state, data_prefs, data_debug_urls, p,
                    debug_urls, tries_i, cards, accepted, rendered, nfail,
                    log0, f_text, f_out, fe_src, fe_out >>

\* the request of fetch_dou_eu is served a page
fetch_dou_eu_page ==
    /\ pc = "fetch_dou_eu"
    /\ \E page \in EU_PAGES :
         LET out == fetch_dou_eu_out(p, page, LIMIT, relax_if_empty)
         IN  /\ reqs' = Append(reqs, request("eu", EU_URL, relax_if_empty))
             /\ cards' = page
             /\ accepted' = out
             /\ results' = eu_items(out)
             /\ pc' = "persist"
    /\ UNCHANGED << msgs, c_message, stale,
                    ALLOW_RU, state, data_prefs, data_debug_urls, p,
                    debug_urls, tries_i, relax_if_empty, in_try, exc,
                    rendered, nfail, log0, f_text, f_out, fe_src, fe_out >>

\* do_search after search_jobs: update_data, then the message
do_search_finish ==
    /\ pc = "persist"
    /\ data_debug_urls' = debug_urls
    /\ rendered' = [header |-> p,
                    body |-> IF results # <<>> THEN results
                             ELSE <<NOTHING_FOUND>>]
    /\ msgs' = [msgs EXCEPT ![c_message] = "review"]
    /\ pc' = "done"
    /\ UNCHANGED << c_message, stale, ALLOW_RU, state, data_prefs, p,
                    debug_urls, tries_i, relax_if_empty, in_try, cards,
                    accepted, results, exc, reqs, nfail, log0, f_text, f_out,
                    fe_src, fe_out >>

\* a session as the wizard can leave it, about to receive do:search
InitSearch ==
    /\ ALLOW_RU \in BOOLEAN
    /\ state = "review"
    /\ data_prefs \in AllPrefs
    /\ data_debug_urls = OLD_LOG
    /\ msgs = <<"review">>
    /\ pc = "idle"
    /\ c_message = 0
    /\ stale = <<>>
    /\ p = Prefs
    /\ debug_urls = <<>>
    /\ tries_i = 0
    /\ relax_if_empty = FALSE
    /\ in_try = FALSE
    /\ cards = <<>>
    /\ accepted = <<>>
    /\ results = <<>>
    /\ exc = None
    /\ rendered = NOT_RENDERED
    /\ reqs = <<>>
    /\ nfail = 0
    /\ log0 = <<>>
    /\ f_text = <<>>
    /\ f_out = <<>>
    /\ fe_src = NO_SOURCE
    /\ fe_out = <<>>

NextSearch ==
    \/ do_search_begin
    \/ fetch_dou_ua_error
    \/ fetch_dou_ua_feed
    \/ fetch_dou_eu_error
    \/ fetch_dou_eu_page
    \/ do_search_finish

SpecSearch == InitSearch /\ [][NextSearch]_vars


(***************************************************************************)
(* The wizard: the handlers of the router, each taken up to its first      *)
(* network await (the session is kept in memory, so the storage calls of a *)
(* handler run without yielding).  One do_search task is followed at a     *)
(* time; the other handlers run while it waits for the network.            *)
(***************************************************************************)

\* most messages the bot has sent to the chat
MaxMsgs == 2

\* the codes pressed on the three option keyboards
PressedCountries == {"UA", "INTL"}

PressedSpheres == {"ANY"}

PressedFormats == {"PARTTIME"}

\* the primary source as the wizard's searches find it: up, with listings
UA_FEEDS_UP == { Prefix(UA_MASTER, MaxFeed) }

\* a button with this callback data is on message m
pressed(m, data) == m \in DOMAIN msgs /\ data \in Keyboard[msgs[m]]

\* the locals of the do_search task, which no other handler touches
task_vars ==
    << pc, c_message, p, debug_urls, tries_i, relax_if_empty, in_try, cards,
       accepted, results, exc, rendered, reqs, nfail, log0 >>

harness_vars == << ALLOW_RU, f_text, f_out, fe_src, fe_out >>

\* the do_search task is between get_data and update_data
search_in_flight == pc \in {"fetch_dou_ua", "fetch_dou_eu", "persist"}

\* cmd_start keeps the log
cmd_start_data_keeps_log(log) == [prefs |-> Prefs, debug_urls |-> log]

\* cmd_start: update_data(prefs=Prefs().__dict__, debug_urls=[])
cmd_start_data(log) == [prefs |-> Prefs, debug_urls |-> <<>>]

\* cmd_start, also as do_reset and cmd_reset call it after state.clear():
\* the session is set anew and a message with the country keyboard is sent
cmd_start_body ==
    /\ Len(msgs) < MaxMsgs
    /\ state' = "country"
    /\ data_prefs' = cmd_start_data(data_debug_urls).prefs
    /\ data_debug_urls' = cmd_start_data(data_debug_urls).debug_urls
    /\ msgs' = Append(msgs, "country")
    /\ UNCHANGED << task_vars, harness_vars >>

\* /start
cmd_start == cmd_start_body /\ UNCHANGED stale

\* what a reset leaves in the hands of the task that is in flight
reset_marks == IF search_in_flight THEN debug_urls ELSE stale

\* /reset
cmd_reset == cmd_start_body /\ stale' = reset_marks

\* nav:reset
do_reset ==
    /\ \E m \in DOMAIN msgs : pressed(m, <<"nav", "reset">>)
    /\ cmd_start_body
    /\ stale' = reset_marks

\* choose_country: prefs.country = code
choose_country_prefs(prefs, code) == [prefs EXCEPT !.country = code]

\* country:<code>
choose_country ==
    \E m \in DOMAIN msgs, code \in PressedCountries :
       /\ pressed(m, <<"country", code>>)
       /\ data_prefs' = choose_country_prefs(data_prefs, code)
       /\ state' = "sphere"
       /\ msgs' = [msgs EXCEPT ![m] = "sphere"]
       /\ UNCHANGED << data_debug_urls, stale, task_vars, harness_vars >>

\* sphere:<code>
choose_sphere ==
    \E m \in DOMAIN msgs, code \in PressedSpheres :
       /\ pressed(m, <<"sphere", code>>)
       /\ data_prefs' = [data_prefs EXCEPT !.sphere = code]
       /\ state' = "format_"
       /\ msgs' = [msgs EXCEPT ![m] = "format_"]
       /\ UNCHANGED << data_debug_urls, stale, task_vars, harness_vars >>

\* format:<code>
choose_format ==
    \E m \in DOMAIN msgs, code \in PressedFormats :
       /\ pressed(m, <<"format", code>>)
       /\ data_prefs' = [data_prefs EXCEPT !.format_ = code]
       /\ state' = "review"
       /\ msgs' = [msgs EXCEPT ![m] = "review"]
       /\ UNCHANGED << data_debug_urls, stale, task_vars, harness_vars >>

\* go_back steps back two states
go_back_to_country(cur) == IF cur = "country" THEN cur ELSE "country"

\* go_back: the state set for each current state (none in the country step)
go_back_to(cur) ==
    CASE cur = "sphere"  -> "country"
      [] cur = "format_" -> "sphere"
      [] cur = "review"  -> "format_"
      [] OTHER           -> cur

\* nav:back
go_back ==
    \E m \in DOMAIN msgs :
       /\ pressed(m, <<"nav", "back">>)
       /\ state' = go_back_to(state)
       /\ msgs' = IF go_back_to(state) # state
                  THEN [msgs EXCEPT ![m] = go_back_to(state)]
                  ELSE msgs
       /\ UNCHANGED << data_prefs, data_debug_urls, stale, task_vars,
                       harness_vars >>

\* nav:edit
edit_selection ==
    \E m \in DOMAIN msgs :
       /\ pressed(m, <<"nav", "edit">>)
       /\ state' = "country"
       /\ msgs' = [msgs EXCEPT ![m] = "country"]
       /\ UNCHANGED << data_prefs, data_debug_urls, stale, task_vars,
                       harness_vars >>

\* the first request of the ladder is answered with listings
fetch_dou_ua_answers == fetch_dou_ua_served(UA_FEEDS_UP)

\* do_search returns after c.answer: its locals are gone
do_search_return ==
    /\ pc = "done"
    /\ pc' = "idle"
    /\ c_message' = 0
    /\ p' = Prefs
    /\ debug_urls' = <<>>
    /\ tries_i' = 0
    /\ relax_if_empty' = FALSE
    /\ in_try' = FALSE
    /\ cards' = <<>>
    /\ accepted' = <<>>
    /\ results' = <<>>
    /\ exc' = None
    /\ rendered' = NOT_RENDERED
    /\ reqs' = <<>>
    /\ nfail' = 0
    /\ log0' = <<>>
    /\ stale' = <<>>
    /\ UNCHANGED << state, data_prefs, data_debug_urls, msgs, harness_vars >>

\* the bot after start-up: no session, no message in the chat
InitWizard ==
    /\ ALLOW_RU = TRUE
    /\ state = None
    /\ data_prefs = Prefs
    /\ data_debug_urls = <<>>
    /\ msgs = <<>>
    /\ pc = "idle"
    /\ c_message = 0
    /\ stale = <<>>
    /\ p = Prefs
    /\ debug_urls = <<>>
    /\ tries_i = 0
    /\ relax_if_empty = FALSE
    /\ in_try = FALSE
    /\ cards = <<>>
    /\ accepted = <<>>
    /\ results = <<>>
    /\ exc = None
    /\ rendered = NOT_RENDERED
    /\ reqs = <<>>
    /\ nfail = 0
    /\ log0 = <<>>
    /\ f_text = <<>>
    /\ f_out = <<>>
    /\ fe_src = NO_SOURCE
    /\ fe_out = <<>>

NextWizard ==
    \/ cmd_start
    \/ cmd_reset
    \/ choose_country
    \/ choose_sphere
    \/ choose_format
    \/ go_back
    \/ do_reset
    \/ edit_selection
    \/ do_search_begin
    \/ fetch_dou_ua_answers
    \/ do_search_finish
    \/ do_search_return

SpecWizard == InitWizard /\ [][NextWizard]_vars
(***************************************************************************)
(* The content filter on its own                                           *)
(***************************************************************************)

\* longest run of characters put before and after the place name
MaxPad == 1

PadChars == {" ", ",", "(", "x"}

Pads == UNION { [1..k -> PadChars] : k \in 0..MaxPad }

MOSCOW_SPELLINGS ==
    { <<"M","o","s","c","o","w">>, <<"M","O","S","C","O","W">>,
      <<"m","o","s","c","o","w">>, <<"m","O","s","C","o","W">> }

FilterTexts ==
    { pre \o w \o suf : pre \in Pads, w \in MOSCOW_SPELLINGS, suf \in Pads }

InitFilter ==
    /\ ALLOW_RU \in BOOLEAN
    /\ f_text \in FilterTexts
    /\ f_out = <<>>
    /\ state = None
    /\ data_prefs = Prefs
    /\ data_debug_urls = <<>>
    /\ msgs = <<>>
    /\ pc = "idle"
    /\ c_message = 0
    /\ stale = <<>>
    /\ p = Prefs
    /\ debug_urls = <<>>
    /\ tries_i = 0
    /\ relax_if_empty = FALSE
    /\ in_try = FALSE
    /\ cards = <<>>
    /\ accepted = <<>>
    /\ results = <<>>
    /\ exc = None
    /\ rendered = NOT_RENDERED
    /\ reqs = <<>>
    /\ nfail = 0
    /\ log0 = <<>>
    /\ fe_src = NO_SOURCE
    /\ fe_out = <<>>

\* one call of contains_forbidden
call_contains_forbidden ==
    /\ f_out = <<>>
    /\ f_out' = <<contains_forbidden(f_text)>>
    /\ UNCHANGED << msgs, c_message, stale,
                    ALLOW_RU, state, data_prefs, data_debug_urls, pc, p,
                    debug_urls, tries_i, relax_if_empty, in_try, cards,
                    accepted, results, exc, rendered, reqs, nfail, log0,
                    f_text, fe_src, fe_out >>

NextFilter == call_contains_forbidden

SpecFilter == InitFilter /\ [][NextFilter]_vars

(***************************************************************************)
(* The two scans on their own, on sources long enough to reach the cap     *)
(***************************************************************************)

\* most candidates after the leading ones
MaxTail == 14

\* most skipped entries put first (also counted back from UA_SCAN)
MaxLead == 1

DIGITS == <<"0","1","2","3","4","5","6","7","8","9">>

RECURSIVE decimal(_)
decimal(n) ==
    IF n < 10 THEN <<DIGITS[n + 1]>>
    ELSE decimal(n \div 10) \o <<DIGITS[(n % 10) + 1]>>

\* a feed of lead untitled entries, then n titled ones, every fourth of which
\* names Moscow
gen_feed(lead, n) ==
    [i \in 1..(lead + n) |->
        [title |-> IF i <= lead THEN <<>>
                   ELSE IF (i - lead) % 4 = 2 THEN T_MOSCOW ELSE T_QA,
         link  |-> <<"/","v","/">> \o decimal(i)]]

FetchLeads == (0..MaxLead) \cup { UA_SCAN - d : d \in 0..MaxLead }

FetchFeeds == { gen_feed(lead, n) : lead \in FetchLeads, n \in 0..MaxTail }

\* a page of n anchors: every fourth card names Moscow, every fifth anchor
\* has no href, and with_pt marks every third card part-time
gen_page(n, with_pt) ==
    [i \in 1..n |->
        [title  |-> T_QA,
         href   |-> IF i % 5 = 3 THEN <<>> ELSE <<"/","j","/">> \o decimal(i),
         parent |-> TRUE,
         text   |-> T_QA
                    \o (IF i % 4 = 2 THEN <<" ","M","o","s","c","o","w">>
                        ELSE <<>>)
                    \o (IF with_pt /\ i % 3 = 0 THEN <<" ">> \o PT_MARKS[1]
                        ELSE <<>>)]]

FetchPages == { gen_page(n, b) : n \in 0..MaxTail, b \in BOOLEAN }

FetchPrefs ==
    { [country |-> "UA", sphere |-> "QA", format_ |-> "PARTTIME"],
      [country |-> "UA", sphere |-> "ANY", format_ |-> "ANY"],
      [country |-> "UA", sphere |-> "DESIGN", format_ |-> "REMOTE"] }

FetchSources ==
    { [kind |-> "ua", body |-> f, q |-> Prefs, relax |-> FALSE] :
          f \in FetchFeeds }
    \cup
    [kind : {"eu"}, body : FetchPages, q : FetchPrefs, relax : BOOLEAN]

InitFetch ==
    /\ ALLOW_RU \in BOOLEAN
    /\ fe_src \in FetchSources
    /\ fe_out = <<>>
    /\ f_text = <<>>
    /\ f_out = <<>>
    /\ state = None
    /\ data_prefs = Prefs
    /\ data_debug_urls = <<>>
    /\ msgs = <<>>
    /\ pc = "idle"
    /\ c_message = 0
    /\ stale = <<>>
    /\ p = Prefs
    /\ debug_urls = <<>>
    /\ tries_i = 0
    /\ relax_if_empty = FALSE
    /\ in_try = FALSE
    /\ cards = <<>>
    /\ accepted = <<>>
    /\ results = <<>>
    /\ exc = None
    /\ rendered = NOT_RENDERED
    /\ reqs = <<>>
    /\ nfail = 0
    /\ log0 = <<>>

\* the scan of fetch_dou_ua on one feed
scan_feed ==
    /\ fe_src.kind = "ua"
    /\ fe_out = <<>>
    /\ fe_out' = <<fetch_dou_ua_out(fe_src.body, LIMIT)>>
    /\ UNCHANGED << msgs, c_message, stale,
                    ALLOW_RU, state, data_prefs, data_debug_urls, pc, p,
                    debug_urls, tries_i, relax_if_empty, in_try, cards,
                    accepted, results, exc, rendered, reqs, nfail, log0,
                    f_text, f_out, fe_src >>

\* the passes of fetch_dou_eu on one page
scan_page ==
    /\ fe_src.kind = "eu"
    /\ fe_out = <<>>
    /\ fe_out' = <<fetch_dou_eu_out(fe_src.q, fe_src.body, LIMIT,
                                    fe_src.relax)>>
    /\ UNCHANGED << msgs, c_message, stale,
                    ALLOW_RU, state, data_prefs, data_debug_urls, pc, p,
                    debug_urls, tries_i, relax_if_empty, in_try, cards,
                    accepted, results, exc, rendered, reqs, nfail, log0,
                    f_text, f_out, fe_src >>

NextFetch == scan_feed \/ scan_page

SpecFetch == InitFetch /\ [][NextFetch]_vars


(***************************************************************************)
(* The ladder of queries on its own, for every preference combination      *)
(***************************************************************************)

QuerySources ==
    { [kind |-> "tries", body |-> <<>>, q |-> q, relax |-> FALSE] :
          q \in AllPrefs }

InitQuery ==
    /\ ALLOW_RU = TRUE
    /\ fe_src \in QuerySources
    /\ fe_out = <<>>
    /\ f_text = <<>>
    /\ f_out = <<>>
    /\ state = None
    /\ data_prefs = Prefs
    /\ data_debug_urls = <<>>
    /\ msgs = <<>>
    /\ pc = "idle"
    /\ c_message = 0
    /\ stale = <<>>
    /\ p = Prefs
    /\ debug_urls = <<>>
    /\ tries_i = 0
    /\ relax_if_empty = FALSE
    /\ in_try = FALSE
    /\ cards = <<>>
    /\ accepted = <<>>
    /\ results = <<>>
    /\ exc = None
    /\ rendered = NOT_RENDERED
    /\ reqs = <<>>
    /\ nfail = 0
    /\ log0 = <<>>

\* fetch_dou_ua builds tries: the five URLs, as text
build_tries ==
    /\ fe_src.kind = "tries"
    /\ fe_out = <<>>
    /\ fe_out' = << [i \in DOMAIN TRY_VARIANTS |->
                       url_text(fetch_dou_ua_try(fe_src.q, i))] >>
    /\ UNCHANGED << msgs, c_message, stale,
                    ALLOW_RU, state, data_prefs, data_debug_urls, pc, p,
                    debug_urls, tries_i, relax_if_empty, in_try, cards,
                    accepted, results, exc, rendered, reqs, nfail, log0,
                    f_text, f_out, fe_src >>

NextQuery == build_tries

SpecQuery == InitQuery /\ [][NextQuery]_vars

(***************************************************************************)
(* The matching predicate of the secondary source on its own               *)
(***************************************************************************)

\* the words a card text is put together from, each in the spellings that
\* the rules tell apart
CATEGORY_WORDS ==
    { <<>>, <<"Q","A">>, <<"q","a">>, <<"D","E","S","I","G","N">> }

REMOTE_WORDS == { <<>>, REMOTE_MARK, lower(REMOTE_MARK) }

PT_WORDS ==
    { <<>>, PT_MARKS[1], PT_MARKS[2], PT_MARKS[3], lower(PT_MARKS[3]) }

CONTRACT_WORDS == { <<>>, CONTRACT_MARK, lower(CONTRACT_MARK) }

\* card.get_text(" ", strip=True): the words of the card, a space between
words(a, b) == IF a = <<>> THEN b ELSE IF b = <<>> THEN a
               ELSE a \o <<" ">> \o b

MatchTexts ==
    { words(words(c, r), words(t, k)) :
          c \in CATEGORY_WORDS, r \in REMOTE_WORDS, t \in PT_WORDS,
          k \in CONTRACT_WORDS }

MatchPrefs ==
    [country : {"UA"},
     sphere  : {None, "QA", "DESIGN", "BACKEND", OTHER_SPHERE},
     format_ : Range(FORMATS) \cup {None}]

MatchSources ==
    [kind : {"match"}, body : MatchTexts, q : MatchPrefs, relax : BOOLEAN]

InitMatch ==
    /\ ALLOW_RU = TRUE
    /\ fe_src \in MatchSources
    /\ fe_out = <<>>
    /\ f_text = <<>>
    /\ f_out = <<>>
    /\ state = None
    /\ data_prefs = Prefs
    /\ data_debug_urls = <<>>
    /\ msgs = <<>>
    /\ pc = "idle"
    /\ c_message = 0
    /\ stale = <<>>
    /\ p = Prefs
    /\ debug_urls = <<>>
    /\ tries_i = 0
    /\ relax_if_empty = FALSE
    /\ in_try = FALSE
    /\ cards = <<>>
    /\ accepted = <<>>
    /\ results = <<>>
    /\ exc = None
    /\ rendered = NOT_RENDERED
    /\ reqs = <<>>
    /\ nfail = 0
    /\ log0 = <<>>

\* one call of match_card_text
call_match_card_text ==
    /\ fe_src.kind = "match"
    /\ fe_out = <<>>
    /\ fe_out' = <<match_card_text(fe_src.q, fe_src.body, fe_src.relax)>>
    /\ UNCHANGED << msgs, c_message, stale,
                    ALLOW_RU, state, data_prefs, data_debug_urls, pc, p,
                    debug_urls, tries_i, relax_if_empty, in_try, cards,
                    accepted, results, exc, rendered, reqs, nfail, log0,
                    f_text, f_out, fe_src >>

NextMatch == call_match_card_text

SpecMatch == InitMatch /\ [][NextMatch]_vars
(***************************************************************************)
(* Properties of the search (SpecSearch)                                   *)
(***************************************************************************)

PrimaryCountries == {"UA", "INTL", "ANY", None}

SearchRunning == pc \in {"fetch_dou_ua", "fetch_dou_eu"}

SearchReturned == pc \in {"persist", "done"}

\* the five variants in the order (i) canonical, (ii) part-time synonyms,
\* (iii) contract synonyms, (iv) alternate part-time phrasing, (v) category
\* dropped
Ladder(q) ==
    << build_dou_ua_feed_url(q, <<>>, FALSE),
       build_dou_ua_feed_url(q, <<PT_SYNONYMS>>, FALSE),
       build_dou_ua_feed_url(q, <<CONTRACT_SYNONYMS>>, FALSE),
       build_dou_ua_feed_url(q, <<PT_ALT>>, FALSE),
       build_dou_ua_feed_url(q, <<>>, TRUE) >>

UaRequests == SelectSeq(reqs, LAMBDA r : r.src = "ua")

\* C1: with country in {UA, INTL, ANY, unset} the requests of a search are
\* the ladder variants (i)..(v) in that order; a secondary request comes only
\* after all five; and once a variant has yielded an accepted listing the
\* search has returned exactly that variant's listings and requests nothing
\* more.
C1_LadderInOrder ==
    (pc # "idle" /\ p.country \in PrimaryCountries) =>
        /\ LET ladder == Ladder(p)
           IN  \A i \in DOMAIN reqs :
                  IF i <= 5 THEN reqs[i] = request("ua", ladder[i], FALSE)
                  ELSE reqs[i].src = "eu"
        /\ SearchRunning => accepted = <<>>
        /\ (SearchReturned /\ Len(reqs) <= 5) =>
              /\ accepted # <<>>
              /\ results = ua_items(accepted)
              /\ tries_i = Len(reqs)

\* a search answered by the third variant
C1_Witness ==
    /\ pc = "done"
    /\ p.country \in PrimaryCountries
    /\ Len(reqs) = 3
    /\ reqs[3] = request("ua", Ladder(p)[3], FALSE)
    /\ results # <<>>

\* C2: with country in {UA, INTL, ANY, unset}, the secondary request made
\* when the five variants are exhausted has relaxation enabled for PARTTIME
\* and CONTRACT and disabled for every other format.
C2_RelaxAfterLadder ==
    (pc # "idle" /\ p.country \in PrimaryCountries /\ Len(reqs) >= 6) =>
        reqs[6] = request("eu", EU_URL,
                          p.format_ \in {"PARTTIME", "CONTRACT"})

\* an exhausted ladder followed by a strict secondary request
C2_Witness ==
    /\ pc = "done"
    /\ p.country \in PrimaryCountries
    /\ p.format_ = "REMOTE"
    /\ Len(reqs) = 6
    /\ ~reqs[6].relax
    /\ tries_i = 5

\* C3: with any other country no primary request is issued, nothing is
\* appended to the diagnostic log, and every request is a secondary request
\* with relaxation enabled.
C3_OtherCountryDirect ==
    (pc # "idle" /\ p.country \notin PrimaryCountries) =>
        /\ \A i \in DOMAIN reqs : reqs[i] = request("eu", EU_URL, TRUE)
        /\ SearchRunning => Len(reqs) = 0
        /\ debug_urls = log0
        /\ pc = "done" => data_debug_urls = log0

\* a search for another country answered by the secondary source
C3_Witness ==
    /\ pc = "done"
    /\ p.country = OTHER_COUNTRY
    /\ Len(reqs) = 1
    /\ results # <<>>
    /\ debug_urls # <<>>

\* C4: when all five primary requests failed, the result is the relaxed-mode
\* result of the page the secondary source served (an exception that leaves
\* search_jobs is the one of a relaxed-mode call), and the five failed
\* queries are in the diagnostic log.
C4_PrimaryDownFallsBackRelaxed ==
    (SearchReturned /\ p.country \in PrimaryCountries /\ nfail = 5) =>
        /\ exc = None =>
              results = eu_items(fetch_dou_eu_out(p, cards, LIMIT, TRUE))
        /\ exc # None => reqs[Len(reqs)] = request("eu", EU_URL, TRUE)
        /\ debug_urls = log0 \o Ladder(p)
        /\ pc = "done" => data_debug_urls = log0 \o Ladder(p)

\* the primary source is down, the format asks for no relaxation, and the
\* secondary source answers
C4_Witness ==
    /\ pc = "done"
    /\ p.country \in PrimaryCountries
    /\ p.format_ = "REMOTE"
    /\ nfail = 5
    /\ exc = None
    /\ results # <<>>

\* C5: a failed variant does not end the ladder (it ends at the first
\* variant with an accepted listing or after the fifth), and the entries the
\* search appended to the diagnostic log are the queries of the variants
\* requested, in ladder order.
C5_FailureContinuesAndLogs ==
    (pc # "idle" /\ p.country \in PrimaryCountries) =>
        /\ debug_urls = log0 \o SubSeq(Ladder(p), 1, tries_i)
        /\ debug_urls = log0 \o [i \in DOMAIN UaRequests |-> UaRequests[i].url]
        /\ pc = "fetch_dou_ua" => tries_i < 5
        /\ pc \in {"fetch_dou_eu", "persist", "done"} =>
              \/ tries_i = 5
              \/ accepted # <<>> /\ Len(reqs) = tries_i
        /\ pc = "done" => data_debug_urls = debug_urls

\* two variants failed, the third was served nothing, the fourth answered
C5_Witness ==
    /\ pc = "done"
    /\ tries_i = 4
    /\ nfail = 2
    /\ accepted # <<>>
    /\ log0 # <<>>
    /\ data_debug_urls = log0 \o SubSeq(Ladder(p), 1, 4)

\* C6: no fetch failure reaches the user: the message do_search renders
\* holds no entry made from a raw error.
C6_NoRawErrorRendered ==
    \A i \in DOMAIN rendered.body : rendered.body[i].kind # "error"

\* C7: an exception that leaves search_jobs is caught by do_search: the
\* result is the single entry made from it, the diagnostic log collected so
\* far is stored in the session, and the message is rendered.
C7_ExceptionCaught ==
    /\ pc # "raised"
    /\ exc # None =>
          /\ SearchReturned
          /\ results = <<error_item(exc)>>
          /\ pc = "persist" => ENABLED do_search_finish
          /\ pc = "done" =>
                /\ data_debug_urls = debug_urls
                /\ rendered.body = results

\* the ladder and both secondary requests failed; the five queries are stored
C7_Witness ==
    /\ pc = "done"
    /\ exc # None
    /\ Len(reqs) = 7
    /\ Len(data_debug_urls) = Len(log0) + 5
    /\ Len(rendered.body) = 1

FromSecondary == reqs # <<>> /\ reqs[Len(reqs)].src = "eu"

\* C9: with region filtering active no returned listing comes from a
\* candidate whose title or card text the content filter rejects; with the
\* toggle on, every anchor of the page that has an href and matches the
\* preferences is returned (the pages served are shorter than the cap).
C9_FilterOnEveryPath ==
    (SearchReturned /\ exc = None) =>
        /\ results = IF FromSecondary THEN eu_items(accepted)
                     ELSE ua_items(accepted)
        /\ ~ALLOW_RU =>
              \A i \in DOMAIN accepted :
                 /\ ~contains_forbidden(accepted[i].title)
                 /\ FromSecondary => ~contains_forbidden(accepted[i].text)
        /\ (ALLOW_RU /\ FromSecondary) =>
              \A i \in DOMAIN cards :
                 (cards[i].href # <<>>
                    /\ match_card_text(p, cards[i].text, FALSE))
                 => cards[i] \in Range(accepted)

\* the secondary source serves a card that matches, whose title passes the
\* filter and whose text does not, and the search returns other listings
C9_Witness ==
    /\ pc = "done"
    /\ ~ALLOW_RU
    /\ FromSecondary
    /\ accepted # <<>>
    /\ \E i \in DOMAIN cards :
          /\ contains_forbidden(cards[i].text)
          /\ ~contains_forbidden(cards[i].title)
          /\ match_card_text(p, cards[i].text, FALSE)

(***************************************************************************)
(* Properties of the scans (SpecFetch)                                     *)
(***************************************************************************)

Take(s, n) == SubSeq(s, 1, IF Len(s) < n THEN Len(s) ELSE n)

\* the candidates of the source that pass every filter of the scan that
\* produced the result, in source order
Acceptable(src) ==
    IF src.kind = "ua" THEN SelectSeq(src.body, ua_entry_ok)
    ELSE LET strict  == SelectSeq(src.body,
                                  LAMBDA a : eu_card_ok(a, src.q, FALSE))
             relaxed == SelectSeq(src.body,
                                  LAMBDA a : eu_card_ok(a, src.q, TRUE))
         IN  IF /\ strict = <<>>
                /\ src.relax
                /\ src.q.format_ \in {"PARTTIME", "CONTRACT"}
             THEN relaxed ELSE strict

\* the same, among the entries fetch_dou_ua reads
AcceptableRead(src) ==
    IF src.kind = "ua"
    THEN SelectSeq(Take(src.body, UA_SCAN), ua_entry_ok)
    ELSE Acceptable(src)

C10_MoscowAlwaysSuppressed ==
    (f_out # <<>> /\ Contains(lower(f_text), <<"m","o","s","c","o","w">>)) =>
        f_out[1] = ~ALLOW_RU


(***************************************************************************)
(* Properties of the listings returned (SpecSearch)                        *)
(***************************************************************************)

\* C11: every listing search_jobs returns, from either source, has a
\* non-empty title and a non-empty link, and a candidate lacking either is
\* skipped without ending the scan: the candidates after it are still
\* returned.
C11_TitleAndLink ==
    (SearchReturned /\ exc = None) =>
        /\ \A i \in DOMAIN results :
              results[i].text # <<>> /\ results[i].href # <<>>
        /\ FromSecondary =>
              \A i \in DOMAIN cards :
                 (/\ cards[i].title # <<>>
                  /\ cards[i].href # <<>>
                  /\ eu_card_ok(cards[i], p, FALSE))
                 => cards[i] \in Range(accepted)

(***************************************************************************)
(* Properties of the wizard (SpecWizard)                                   *)
(***************************************************************************)

Complete(q) == q.country # None /\ q.sphere # None /\ q.format_ # None

\* C12: whenever do_search invokes search_jobs, after any sequence of wizard
\* events, the preferences it passes are complete: country, sphere and
\* format are all set.
C12_PrefsComplete == search_in_flight => Complete(p)

\* C17: choosing a country, sphere or format moves to the sphere, format or
\* review step and sets that one preference field only; nav:back moves one
\* step back (sphere to country, format to sphere, review to format) and
\* changes nothing in the country step; nav:edit moves to the country step;
\* nav:back and nav:edit change no preference field and not the diagnostic
\* log.
C17_WizardSteps ==
    [][ /\ choose_country =>
              /\ state' = "sphere"
              /\ data_prefs'.country \in Range(COUNTRIES)
              /\ data_prefs'.sphere = data_prefs.sphere
              /\ data_prefs'.format_ = data_prefs.format_
              /\ data_debug_urls' = data_debug_urls
        /\ choose_sphere =>
              /\ state' = "format_"
              /\ data_prefs'.sphere \in Range(SPHERES)
              /\ data_prefs'.country = data_prefs.country
              /\ data_prefs'.format_ = data_prefs.format_
              /\ data_debug_urls' = data_debug_urls
        /\ choose_format =>
              /\ state' = "review"
              /\ data_prefs'.format_ \in Range(FORMATS)
              /\ data_prefs'.country = data_prefs.country
              /\ data_prefs'.sphere = data_prefs.sphere
              /\ data_debug_urls' = data_debug_urls
        /\ go_back =>
              /\ state = "sphere" => state' = "country"
              /\ state = "format_" => state' = "sphere"
              /\ state = "review" => state' = "format_"
              /\ state = "country" => UNCHANGED << state, msgs >>
              /\ UNCHANGED << data_prefs, data_debug_urls >>
        /\ edit_selection =>
              /\ state' = "country"
              /\ UNCHANGED << data_prefs, data_debug_urls >>
      ]_vars

\* the wizard is back in the format step, from the review step, with the
\* three preferences it had collected
C17_Witness ==
    /\ state = "format_"
    /\ Complete(data_prefs)
    /\ msgs = <<"format_">>
    /\ pc = "idle"

\* a step of the do_search task
task_step == task_vars' # task_vars

\* C20 as stated: a search changes only the diagnostic log of the session,
\* and when a reset completed while the search was in flight, the search's
\* completion writes none of the queries logged before the reset back into
\* the session.
C20_NoWriteBackAfterReset ==
    [][ task_step =>
           /\ UNCHANGED << state, data_prefs >>
           /\ (pc = "persist" /\ pc' = "done") =>
                 \A i \in DOMAIN stale :
                    stale[i] \notin Range(data_debug_urls')
      ]_vars

\* C20, amended: a search changes only the diagnostic log of the session; a
\* reset leaves the session in the country step with no preference set and
\* an empty log; the completion of a search, also of one that was in flight
\* when the reset ran, stores the log the search read when it began followed
\* by the queries it issued.
C20_LastWriteWins ==
    [][ /\ task_step =>
              /\ UNCHANGED << state, data_prefs >>
              /\ (pc = "persist" /\ pc' = "done") =>
                    data_debug_urls' = log0 \o SubSeq(Ladder(p), 1, tries_i)
        /\ (cmd_reset \/ do_reset) =>
              /\ state' = "country"
              /\ data_prefs' = Prefs
              /\ data_debug_urls' = <<>>
      ]_vars

\* a reset ran after the search had logged a query, and the search has
\* completed: the session is in the country step, no preference is set, and
\* the log holds the query
C20_Witness ==
    /\ pc = "done"
    /\ stale # <<>>
    /\ state = "country"
    /\ data_prefs = Prefs
    /\ data_debug_urls = stale

(***************************************************************************)
(* Properties of the secondary source within a search (SpecSearch)         *)
(***************************************************************************)

EuRequests == SelectSeq(reqs, LAMBDA r : r.src = "eu")

\* the candidates of the page that pass one pass, cut at the cap
PassOf(allow_relax) ==
    Take(SelectSeq(cards, LAMBDA a : eu_card_ok(a, p, allow_relax)), LIMIT)

WantsRelax(q) == q.format_ \in {"PARTTIME", "CONTRACT"}

\* C13: a result of the secondary source is the outcome of the pass with
\* allow_relax = false over the page fetched, unless that pass accepted
\* nothing and the request wanted part-time or contract: then, and only
\* then, it is the outcome of the pass with allow_relax = true over the same
\* candidates.  No request of search_jobs for PARTTIME or CONTRACT has
\* relaxation disabled, and no result holds listings of both passes.
C13_TwoPasses ==
    /\ (pc # "idle" /\ WantsRelax(p)) =>
          \A i \in DOMAIN EuRequests : EuRequests[i].relax
    /\ (SearchReturned /\ exc = None /\ FromSecondary) =>
          /\ accepted = IF PassOf(FALSE) = <<>> /\ WantsRelax(p)
                        THEN PassOf(TRUE) ELSE PassOf(FALSE)
          /\ \/ \A i \in DOMAIN accepted : eu_card_ok(accepted[i], p, FALSE)
             \/ \A i \in DOMAIN cards : ~eu_card_ok(cards[i], p, FALSE)

\* a part-time search after an empty ladder: the strict pass accepted
\* nothing of the page and the relaxed pass returned a listing
C13_Witness ==
    /\ pc = "done"
    /\ p.format_ = "PARTTIME"
    /\ tries_i = 5
    /\ nfail = 0
    /\ Len(reqs) = 6
    /\ PassOf(FALSE) = <<>>
    /\ accepted # <<>>

\* C18: a search requests the secondary source at most twice, and twice only
\* when the request made after a primary ladder without listings failed and
\* the except handler of search_jobs repeated it with relaxation enabled;
\* any other search requests it at most once; no search issues more than 7
\* requests.
C18_SecondaryAtMostTwice ==
    pc # "idle" =>
        /\ Len(EuRequests) <= 2
        /\ Len(reqs) <= 7
        /\ (p.country \notin PrimaryCountries \/ in_try) =>
              Len(EuRequests) <= 1
        /\ (p.country \in PrimaryCountries /\ ~in_try) =>
              /\ Len(UaRequests) = 5
              /\ Len(EuRequests) >= 1
              /\ SearchReturned => Len(EuRequests) = 2
        /\ Len(EuRequests) = 2 =>
              /\ p.country \in PrimaryCountries
              /\ ~in_try
              /\ Len(reqs) = 7
              /\ reqs[6].src = "eu"
              /\ reqs[7] = request("eu", EU_URL, TRUE)

\* the ladder returned nothing, the secondary request failed, the repeated
\* one was served a page
C18_Witness ==
    /\ pc = "done"
    /\ exc = None
    /\ Len(reqs) = 7
    /\ ~reqs[6].relax
    /\ reqs[7].relax
    /\ results # <<>>

(***************************************************************************)
(* Properties of the primary queries (SpecQuery)                           *)
(***************************************************************************)

\* the URL has a parameter of this name ("?", "&" and "=" are escaped
\* inside names and values)
HasParam(url, name) ==
    \/ Contains(url, <<"?">> \o name \o <<"=">>)
    \/ Contains(url, <<"&">> \o name \o <<"=">>)

SEARCH_BACKEND ==
    <<"s","e","a","r","c","h","=","%","2","8","B","a","c","k","-","e","n",
      "d","+","O","R","+","B","a","c","k","e","n","d","%","2","9">>

DESCR_ON ==
    <<"&","d","e","s","c","r","=","1">>

P_REMOTE ==
    <<"r","e","m","o","t","e">>

P_RELOCATION ==
    <<"r","e","l","o","c","a","t","i","o","n">>

P_CATEGORY ==
    <<"c","a","t","e","g","o","r","y">>

URL_QA_REMOTE_INTL ==
    <<"h","t","t","p","s",":","/","/","j","o","b","s",".","d","o","u",".",
      "u","a","/","v","a","c","a","n","c","i","e","s","/","f","e","e","d",
      "s","/","?","c","a","t","e","g","o","r","y","=","Q","A","&","r","e",
      "m","o","t","e","=","&","r","e","l","o","c","a","t","i","o","n","=">>

URL_BARE ==
    <<"h","t","t","p","s",":","/","/","j","o","b","s",".","d","o","u",".",
      "u","a","/","v","a","c","a","n","c","i","e","s","/","f","e","e","d",
      "s","/","?">>

\* the spheres with a category of their own on the primary source
NativeSpheres == {"QA", "FRONTEND", "DEVOPS", "DESIGN", "DATA", "PMBA"}

\* C15: for sphere BACKEND, whatever the country and the format, each of the
\* five ladder queries has a search clause that begins with the literal
\* "(Back-end OR Backend)", the extra terms of variants (ii)-(iv) coming
\* after it, and carries the flag of the search in descriptions.
C15_BackendExpression ==
    (fe_out # <<>> /\ fe_src.q.sphere = "BACKEND") =>
        \A i \in DOMAIN fe_out[1] :
           /\ HasParam(fe_out[1][i], <<"s","e","a","r","c","h">>)
           /\ Contains(fe_out[1][i], SEARCH_BACKEND)
           /\ i \in 2..4 =>
                 Contains(fe_out[1][i], SEARCH_BACKEND \o <<"+","%","2","8">>)
           /\ i \in {1, 5} =>
                 Contains(fe_out[1][i], SEARCH_BACKEND \o <<"&">>)
           /\ Contains(fe_out[1][i], DESCR_ON)
           /\ SubSeq(fe_out[1][i], Len(fe_out[1][i]) - Len(DESCR_ON) + 1,
                     Len(fe_out[1][i])) = DESCR_ON

\* {country: UA, sphere: BACKEND, format: ANY}: variant (i) has the backend
\* expression and neither the remote nor the relocation flag
C15_Witness ==
    /\ fe_out # <<>>
    /\ fe_src.q = [country |-> "UA", sphere |-> "BACKEND", format_ |-> "ANY"]
    /\ fe_out[1][1] = URL_BARE \o SEARCH_BACKEND \o DESCR_ON

\* C16: every ladder query carries the remote flag exactly when the format
\* is REMOTE, the relocation flag exactly when the country is INTL, and a
\* category parameter exactly when it is not the category-dropped variant
\* and the sphere has a category of its own; {INTL, QA, REMOTE} variant (i)
\* is category=QA with the remote and the relocation flag.
C16_FlagsAndCategory ==
    fe_out # <<>> =>
        /\ \A i \in DOMAIN fe_out[1] :
              /\ HasParam(fe_out[1][i], P_REMOTE)
                    <=> fe_src.q.format_ = "REMOTE"
              /\ HasParam(fe_out[1][i], P_RELOCATION)
                    <=> fe_src.q.country = "INTL"
              /\ HasParam(fe_out[1][i], P_CATEGORY)
                    <=> (i # 5 /\ fe_src.q.sphere \in NativeSpheres)
        /\ fe_src.q = [country |-> "INTL", sphere |-> "QA",
                       format_ |-> "REMOTE"]
              => fe_out[1][1] = URL_QA_REMOTE_INTL

\* the queries of {INTL, QA, REMOTE} are built
C16_Witness ==
    /\ fe_out # <<>>
    /\ fe_src.q = [country |-> "INTL", sphere |-> "QA", format_ |-> "REMOTE"]
    /\ HasParam(fe_out[1][2], P_CATEGORY)
    /\ ~HasParam(fe_out[1][5], P_CATEGORY)

(***************************************************************************)
(* Properties of the queries a search issues (SpecSearch)                  *)
(***************************************************************************)

\* the text of the i-th request of the search
UrlOf(i) == url_text(reqs[i].url)

\* C19: when the sphere has no category of its own on the primary source
\* (BACKEND, ANY, unset, an unknown code), the URL of variant (v) is the URL
\* of variant (i), character by character, so that a search whose first four
\* variants yield nothing requests it again and logs it twice; when the
\* sphere has a category, the five URLs differ pairwise.  (Stated of the
\* search when its fifth request has been made: requests and log entries
\* are not changed afterwards.)
C19_LastVariantRepeatsFirst ==
    (pc \in {"fetch_dou_eu", "persist"} /\ Len(reqs) = 5) =>
        LET u == [i \in 1..5 |-> UrlOf(i)]
        IN  IF p.sphere \in NativeSpheres
            THEN \A i, j \in 1..5 : i < j => u[i] # u[j]
            ELSE /\ u[5] = u[1]
                 /\ debug_urls[Len(log0) + 5] = debug_urls[Len(log0) + 1]
                 /\ \A i, j \in 1..4 : i < j => u[i] # u[j]

\* a search for an unknown sphere went through the five variants
C19_Witness ==
    /\ pc = "fetch_dou_eu"
    /\ p.sphere = OTHER_SPHERE
    /\ Len(reqs) = 5
    /\ nfail = 0
    /\ UrlOf(5) = UrlOf(1)
    /\ Len(debug_urls) = Len(log0) + 5

(***************************************************************************)
(* Properties of the matching predicate (SpecMatch)                        *)
(***************************************************************************)

\* the label the sphere requires of a card text is not in it, whatever the
\* letter case
CategoryAbsent(q, text) ==
    /\ q.sphere \in NativeSpheres
    /\ ~Contains(lower(text), lower(EU_CATEGORY_MAP(q.sphere)))

RemoteAbsent(q, text) ==
    q.format_ = "REMOTE" /\ ~Contains(text, REMOTE_MARK)

OfficeButRemote(q, text) ==
    q.format_ = "OFFICE" /\ Contains(text, REMOTE_MARK)

PartTimeAbsent(q, text) ==
    /\ q.format_ = "PARTTIME"
    /\ \A k \in DOMAIN PT_MARKS : ~Contains(text, PT_MARKS[k])

ContractAbsent(q, text) ==
    q.format_ = "CONTRACT" /\ ~Contains(text, CONTRACT_MARK)

\* C14: match_card_text rejects a text that lacks the required category
\* (in any letter case), lacks the remote marker when remote is required, or
\* has it when office is required, whatever allow_relax; the part-time and
\* contract markers are required with allow_relax = false only.  So a text
\* accepted with allow_relax = false is accepted with allow_relax = true.
C14_RelaxSkipsMarkersOnly ==
    fe_out # <<>> =>
        LET q    == fe_src.q
            text == fe_src.body
            hard == \/ CategoryAbsent(q, text)
                    \/ RemoteAbsent(q, text)
                    \/ OfficeButRemote(q, text)
            soft == PartTimeAbsent(q, text) \/ ContractAbsent(q, text)
        IN  /\ hard => ~fe_out[1]
            /\ fe_out[1] <=> (~hard /\ (fe_src.relax \/ ~soft))
            /\ (fe_out[1] /\ ~fe_src.relax) => match_card_text(q, text, TRUE)

\* a part-time request for QA, relaxed: a card that names the category in
\* lower case and has no part-time marker is accepted
C14_Witness ==
    /\ fe_out = <<TRUE>>
    /\ fe_src.relax
    /\ fe_src.q.sphere = "QA"
    /\ fe_src.q.format_ = "PARTTIME"
    /\ PartTimeAbsent(fe_src.q, fe_src.body)
    /\ ~Contains(fe_src.body, <<"Q","A">>)
====
